---- MODULE Spec2Model ----
(***************************************************************************)
(* A model of the two geometry builders of four.js:                        *)
(*   HyperGeometry      (src/src/HyperGeometry.js)      per-cell buffers   *)
(*   HyperSliceGeometry (src/src/HyperSliceGeometry.js) cross-section      *)
(* A behaviour constructs one builder over one shape and one projector     *)
(* (hyperRenderer), then interleaves projector changes with update().      *)
(*                                                                         *)
(* Coordinates are integers in units of half the matching tolerance:       *)
(* 1e-8 is Epsilon = 2 units.  A position buffer is a Float32Array, which  *)
(* rounds every stored coordinate to the single-precision grid             *)
(* (Float32Ulp units wide at the magnitude of the modelled coordinates).   *)
(* Vertex and face indices are 1-based (TLA+ sequences); the indices a     *)
(* builder EMITS (buffer slots) keep the 0-based values of the code, so    *)
(* slot s of a buffer is element s + 1 of its sequence.                    *)
(***************************************************************************)
EXTENDS Integers, Sequences, FiniteSets, TLC

VARIABLES
  builder,          \* "cell" (HyperGeometry) or "slice" (HyperSliceGeometry)
  status,           \* "built", or "threw" when the constructor raised
  shape,            \* this.shape = [vertices, faces, cells]
  options,          \* [useColors, useFaces, useEdges, usePoints]
  projection,       \* hyperRenderer.project, as seen by the builder: vertex -> 3D point
  sliceRes,         \* hyperRenderer.slice, as seen by the builder: directed edge -> 3D point or None
  geometries,       \* HyperGeometry: one face geometry per cell
  edgesGeometries,  \* HyperGeometry: one edge geometry per cell
  pointsGeometries, \* HyperGeometry: one point geometry per cell
  geometry,         \* HyperSliceGeometry: the face geometry
  edgeGeometry,     \* HyperSliceGeometry: the edge geometry
  pointGeometry,    \* HyperSliceGeometry: the point geometry
  trace,            \* what the last update() did: calls made, per-cell outcomes, final counter
  lastOp            \* "construct", "rotate", "update", or "repeat": an update()
                    \* that follows the constructor or an update() directly

vars == <<builder, status, shape, options, projection, sliceRes, geometries,
          edgesGeometries, pointsGeometries, geometry, edgeGeometry,
          pointGeometry, trace, lastOp>>

----------------------------------------------------------------------------
(* Bounds of the model *)

\* slice results of the two directions of one edge differ by 0..MaxSkew units
MaxSkew == 2
\* number of rotation states of the projector that project is observed in
NumRotations == 3

(* Program constants *)

\* const epsilon = 1e-8, in model units
Epsilon == 2
\* spacing of the Float32Array grid, in model units
Float32Ulp == 24

----------------------------------------------------------------------------
(* Plain helpers *)

Abs(x) == IF x < 0 THEN 0 - x ELSE x

Min(S) == CHOOSE x \in S : \A y \in S : x <= y

Range(s) == {s[k] : k \in 1..Len(s)}

RemoveAt(s, k) == [m \in 1..(Len(s) - 1) |-> IF m < k THEN s[m] ELSE s[m + 1]]

RECURSIVE Flat(_)
Flat(ss) == IF Len(ss) = 0 THEN <<>> ELSE Head(ss) \o Flat(Tail(ss))

\* falsy return of slice (no intersection)
None == <<>>

\* new Float32Array(3 * size): size zero-filled slots of 3 floats
Zero3 == <<0, 0, 0>>

Float32Array(size) == [s \in 1..size |-> Zero3]

\* the value a Float32Array element holds after "array[k] = x": x rounded to
\* the nearest grid value, ties to the even one
Fround(x) ==
  LET q == x \div Float32Ulp
      r == x % Float32Ulp
  IN  IF 2 * r < Float32Ulp THEN q * Float32Ulp
      ELSE IF 2 * r > Float32Ulp THEN (q + 1) * Float32Ulp
      ELSE IF q % 2 = 0 THEN q * Float32Ulp ELSE (q + 1) * Float32Ulp

Store(p) == <<Fround(p[1]), Fround(p[2]), Fround(p[3])>>

----------------------------------------------------------------------------
(* Shapes: the ShapeModel inputs of the model *)

\* a tetrahedron: one cell of 4 triangles
Tetra ==
  [vertices |-> <<1, 2, 3, 4>>,
   faces    |-> << <<1, 2, 3>>, <<1, 4, 2>>, <<2, 4, 3>>, <<1, 3, 4>> >>,
   cells    |-> << <<1, 2, 3, 4>> >>]

\* two tetrahedra sharing the face 2-3-4 (two cells of the 5-cell)
TwoTetra ==
  [vertices |-> <<1, 2, 3, 4, 5>>,
   faces    |-> << <<1, 2, 3>>, <<1, 4, 2>>, <<2, 4, 3>>, <<1, 3, 4>>,
                   <<2, 3, 5>>, <<2, 5, 4>>, <<3, 4, 5>> >>,
   cells    |-> << <<1, 2, 3, 4>>, <<3, 5, 6, 7>> >>]

\* a closed cell of a pentagon, a triangle and a quadrilateral (every edge
\* shared by exactly two faces)
Lens ==
  [vertices |-> <<1, 2, 3, 4, 5>>,
   faces    |-> << <<1, 2, 3, 4, 5>>, <<3, 2, 1>>, <<1, 5, 4, 3>> >>,
   cells    |-> << <<1, 2, 3>> >>]

NumVertices(sh) == Len(sh.vertices)

\* the faces of a cell: cell.map(faceIndex => faces[faceIndex])
CellFaces(sh, cell) == [k \in 1..Len(cell) |-> sh.faces[cell[k]]]

\* face[(faceVerticeIndex + 1) % face.length]
NextInFace(face, k) == face[(k % Len(face)) + 1]

\* the directed edges <<a, b>> that the face walks pass to slice
DirEdges(sh) ==
  UNION {{<<sh.faces[f][k], NextInFace(sh.faces[f], k)>> : k \in 1..Len(sh.faces[f])} :
           f \in 1..Len(sh.faces)}

----------------------------------------------------------------------------
(* The projector, as the builders observe it.  rotate and shiftSlice change *)
(* what project and slice return; the builders read nothing else of it.    *)

\* project in rotation state r: a 3D point per vertex
ProjectAt(r, v) == <<100 * v + 7 * r, 50 * v + 13 * r * r, 10 * r + v>>

ProjectionStates(sh) ==
  {[v \in 1..NumVertices(sh) |-> ProjectAt(r, v)] : r \in 0..(NumRotations - 1)}

\* the intersection point of the hyperplane with the edge {a, b}
EdgePoint(a, b) ==
  IF a < b THEN <<100 * a, 100 * b, 0>> ELSE <<100 * b, 100 * a, 0>>

\* the one directed edge whose slice result carries the rounding skew
SkewedEdge == <<4, 1>>

\* slice with the hyperplane at the given offset along the sweep axis: vertex v
\* lies at coordinate v, so the hyperplane separates the vertices above offset
\* from the others, and an edge is cut when its endpoints lie on different sides
SliceAt(offset, skew, de) ==
  IF (de[1] > offset) = (de[2] > offset) THEN None
  ELSE LET p == EdgePoint(de[1], de[2])
       IN  IF de = SkewedEdge THEN <<p[1] + skew, p[2], p[3]>> ELSE p

\* a degenerate projector state: every edge yields the same point
CollapsedPoint == <<48, 48, 48>>

SliceStates(sh) ==
  {[de \in DirEdges(sh) |-> SliceAt(offset, skew, de)] :
     offset \in 1..NumVertices(sh), skew \in 0..MaxSkew}
  \cup {[de \in DirEdges(sh) |-> CollapsedPoint]}

\* the colorGenerator's colorGetter for HyperGeometry: a colour (r, g, b) that
\* is a function of its context {cell, face, vertice, type}; face is 0 for null
CellColor(type, cell, face, vertice) ==
  <<(IF type = "face" THEN 240 ELSE IF type = "edge" THEN 480 ELSE 720) + 24 * cell,
    24 * face, 24 * vertice>>

\* the colorGetter for HyperSliceGeometry: context {cell, pair, point, type}
PairColor(type, cell, pair, point) ==
  <<(IF type = "face-pair" THEN 240 ELSE IF type = "edge-pair" THEN 480 ELSE 720)
      + 24 * cell, 24 * pair, point[1]>>

----------------------------------------------------------------------------
(* Buffer geometries *)

\* a geometry that was not created (its use* option is off)
NoGeometry == [position |-> <<>>, color |-> <<>>, index |-> <<>>, drawRange |-> <<>>]

\* initGeometry(size): zero-filled position (and color) arrays, no index yet
InitGeometry(opt, size) ==
  [position |-> Float32Array(size),
   color |-> IF opt.useColors THEN Float32Array(size) ELSE <<>>,
   index |-> <<>>,
   drawRange |-> <<>>]

\* array[3 * (i + k)] = ... for the values, from slot i on; a write past the
\* end of a Float32Array stores nothing
WriteSlots(array, i, values) ==
  [s \in 1..Len(array) |->
     IF s - 1 >= i /\ s - 1 < i + Len(values) THEN Store(values[s - i]) ELSE array[s]]

----------------------------------------------------------------------------
(* HyperSliceGeometry *)

\* const maxPositions = 2 * cells.reduce((rv, c) => rv + c.length, 0)
RECURSIVE SumLen(_)
SumLen(ss) == IF Len(ss) = 0 THEN 0 ELSE Len(Head(ss)) + SumLen(Tail(ss))

MaxPositions(sh) == 2 * SumLen(sh.cells)

\* p.every((c, ci) => Math.abs(c - dangle[ci]) < epsilon)
Match(p, dangle) == \A ci \in 1..Len(p) : Abs(p[ci] - dangle[ci]) < Epsilon

\* one face's pair: the non-falsy slice results of its boundary edges, in order
FacePair(face, sl) ==
  SelectSeq([k \in 1..Len(face) |-> sl[<<face[k], NextInFace(face, k)>>]],
            LAMBDA x : x # None)

\* pairs of a cell: pair.length > 1 && pairs.push(pair)
CellPairs(sh, cell, sl) ==
  SelectSeq([k \in 1..Len(cell) |-> FacePair(sh.faces[cell[k]], sl)],
            LAMBDA pair : Len(pair) > 1)

\* the while loop with a scan that lacks "break": one iteration removes every
\* remaining pair with an endpoint at the dangling point and appends the other
\* endpoint of each
RECURSIVE LinkLoopNoBreak(_, _, _, _, _)
LinkLoopNoBreak(linkedPairs, pairs, ids, used, iters) ==
  IF Len(pairs) = 0
  THEN [closed |-> TRUE, linkedPairs |-> linkedPairs, used |-> used, iters |-> iters,
        steps |-> <<>>]
  ELSE LET dangle == linkedPairs[Len(linkedPairs)]
           hit(k) == Match(pairs[k][1], dangle) \/ Match(pairs[k][2], dangle)
           places == [k \in 1..Len(pairs) |-> k]
           hits == SelectSeq(places, LAMBDA k : hit(k))
           rest == SelectSeq(places, LAMBDA k : ~hit(k))
           other(k) == IF Match(pairs[k][1], dangle) THEN pairs[k][2] ELSE pairs[k][1]
       IN  IF Len(hits) = 0
           THEN [closed |-> FALSE, linkedPairs |-> linkedPairs, used |-> used,
                 iters |-> iters + 1,
                 steps |-> <<[removed |-> 0, appended |-> 0, aborted |-> TRUE]>>]
           ELSE LET r == LinkLoopNoBreak(
                           linkedPairs \o [m \in 1..Len(hits) |-> other(hits[m])],
                           [m \in 1..Len(rest) |-> pairs[rest[m]]],
                           [m \in 1..Len(rest) |-> ids[rest[m]]],
                           used \o [m \in 1..Len(hits) |-> ids[hits[m]]],
                           iters + 1)
                IN  [r EXCEPT !.steps =
                       <<[removed |-> Len(hits), appended |-> Len(hits),
                          aborted |-> FALSE]>> \o r.steps]

\* the while (pairs.length) loop: ids names, for each remaining pair, its
\* position in the cell's original pairs; used lists the pairs consumed; steps
\* lists, per iteration of the while loop, how many pairs it removed (lp minus
\* the new pairs.length), how many points it appended to linkedPairs, and
\* whether it ended the cell by the return
RECURSIVE LinkLoop(_, _, _, _, _)
LinkLoop(linkedPairs, pairs, ids, used, iters) ==
  IF Len(pairs) = 0
  THEN [closed |-> TRUE, linkedPairs |-> linkedPairs, used |-> used, iters |-> iters,
        steps |-> <<>>]
  ELSE LET dangle == linkedPairs[Len(linkedPairs)]
           hits == {k \in 1..Len(pairs) :
                      Match(pairs[k][1], dangle) \/ Match(pairs[k][2], dangle)}
       IN  IF hits = {}
           THEN [closed |-> FALSE, linkedPairs |-> linkedPairs, used |-> used,
                 iters |-> iters + 1,
                 steps |-> <<[removed |-> 0, appended |-> 0, aborted |-> TRUE]>>]
           ELSE LET k == Min(hits)
                    other == IF Match(pairs[k][1], dangle)
                             THEN pairs[k][2] ELSE pairs[k][1]
                    after == RemoveAt(pairs, k)
                    linked == Append(linkedPairs, other)
                    r == LinkLoop(linked, after, RemoveAt(ids, k),
                                  Append(used, ids[k]), iters + 1)
                IN  [r EXCEPT !.steps =
                       <<[removed |-> Len(pairs) - Len(after),
                          appended |-> Len(linked) - Len(linkedPairs),
                          aborted |-> FALSE]>> \o r.steps]

\* linkedPairs.push(...pairs.shift()), then the loop
Reconstruct(pairs) ==
  LinkLoop(pairs[1], Tail(pairs), [k \in 1..(Len(pairs) - 1) |-> k + 1], <<1>>, 0)

\* indices.push(i, i + j + 1, i + j + 2) for j = 0..length - 3
FanIndices(i, length) ==
  [m \in 1..(3 * (length - 2)) |->
     LET j == (m - 1) \div 3
         r == (m - 1) % 3
     IN  IF r = 0 THEN i ELSE i + j + r]

\* edgeIndices.push(i + j, i + ((j + 1) % length)) for j = 0..length - 1
LoopEdgeIndices(i, length) ==
  [m \in 1..(2 * length) |->
     LET j == (m - 1) \div 2
     IN  IF (m - 1) % 2 = 0 THEN i + j ELSE i + ((j + 1) % length)]

\* the colours of the chain points for one output kind
ChainColors(type, cellIndex, chain) ==
  [k \in 1..Len(chain) |-> PairColor(type, cellIndex, k, chain[k])]

\* what update() emits for a cell whose chain is linkedPairs, on the running
\* state acc: triangles, edge pairs, positions and colours from slot acc.i on,
\* and i advanced once per chain point
EmitCell(opt, acc, cellIndex, linkedPairs) ==
  LET i == acc.i
  IN  [i |-> i + Len(linkedPairs),
       indices |->
         IF opt.useFaces
         THEN acc.indices \o FanIndices(i, Len(linkedPairs))
         ELSE acc.indices,
       edgeIndices |->
         IF opt.useEdges
         THEN acc.edgeIndices \o LoopEdgeIndices(i, Len(linkedPairs))
         ELSE acc.edgeIndices,
       position |->
         IF opt.useFaces
         THEN WriteSlots(acc.position, i, linkedPairs)
         ELSE acc.position,
       color |->
         IF opt.useFaces /\ opt.useColors
         THEN WriteSlots(acc.color, i, ChainColors("face-pair", cellIndex, linkedPairs))
         ELSE acc.color,
       edgePosition |->
         IF opt.useEdges
         THEN WriteSlots(acc.edgePosition, i, linkedPairs)
         ELSE acc.edgePosition,
       edgeColor |->
         IF opt.useEdges /\ opt.useColors
         THEN WriteSlots(acc.edgeColor, i, ChainColors("edge-pair", cellIndex, linkedPairs))
         ELSE acc.edgeColor,
       pointPosition |->
         IF opt.usePoints
         THEN WriteSlots(acc.pointPosition, i, linkedPairs)
         ELSE acc.pointPosition,
       pointColor |->
         IF opt.usePoints /\ opt.useColors
         THEN WriteSlots(acc.pointColor, i, ChainColors("vertex-pair", cellIndex, linkedPairs))
         ELSE acc.pointColor]

\* ProcessCell without the early return of an unclosable cell: the partial
\* chain is emitted
ProcessCellNoAbort(sh, opt, sl, acc, cellIndex) ==
  LET pairs == CellPairs(sh, sh.cells[cellIndex], sl)
  IN  IF Len(pairs) > 2
      THEN EmitCell(opt, acc, cellIndex, Reconstruct(pairs).linkedPairs)
      ELSE acc

\* the part of update() run for one cell, on the running state acc
ProcessCell(sh, opt, sl, acc, cellIndex) ==
  LET pairs == CellPairs(sh, sh.cells[cellIndex], sl)
  IN  IF Len(pairs) > 2
      THEN LET r == Reconstruct(pairs)
           IN  IF ~r.closed THEN acc
               ELSE EmitCell(opt, acc, cellIndex, r.linkedPairs)
      ELSE acc

\* what happened to one cell, for the record kept in trace
CellOutcome(sh, sl, cellIndex) ==
  LET pairs == CellPairs(sh, sh.cells[cellIndex], sl)
  IN  IF Len(pairs) > 2
      THEN LET r == Reconstruct(pairs)
           IN  [pairs |-> pairs,
                outcome |-> IF r.closed THEN "closed" ELSE "abandoned",
                linkedPairs |-> r.linkedPairs, used |-> r.used, iters |-> r.iters,
                steps |-> r.steps]
      ELSE [pairs |-> pairs, outcome |-> "skipped", linkedPairs |-> <<>>,
            used |-> <<>>, iters |-> 0, steps |-> <<>>]

\* cells.forEach: the running state before cell n + 1, i.e. after cells 1..n
RECURSIVE AfterCells(_, _, _, _, _)
AfterCells(sh, opt, sl, start, n) ==
  IF n = 0 THEN start
  ELSE ProcessCell(sh, opt, sl, AfterCells(sh, opt, sl, start, n - 1), n)

\* the places of update() that call slice: cell c, its f-th face, that face's
\* k-th boundary edge
SliceCallSites(sh) ==
  UNION {UNION {{<<c, f, k>> : k \in 1..Len(sh.faces[sh.cells[c][f]])} :
                  f \in 1..Len(sh.cells[c])} :
           c \in 1..Len(sh.cells)}

\* the directed edge (p1, p2) passed to slice at a call site
SliceCallEdge(sh, t) ==
  LET face == sh.faces[sh.cells[t[1]][t[2]]]
  IN  <<face[t[3]], NextInFace(face, t[3])>>

\* how many times one update() passes the directed edge de to slice
SliceCallCount(sh, de) ==
  Cardinality({t \in SliceCallSites(sh) : SliceCallEdge(sh, t) = de})

\* StartOfUpdate with the index lists kept from the previous update() instead
\* of starting empty
StartOfUpdateKeepsIndices(g, eg, pg) ==
  [i |-> 0, indices |-> g.index, edgeIndices |-> eg.index,
   position |-> g.position, color |-> g.color,
   edgePosition |-> eg.position, edgeColor |-> eg.color,
   pointPosition |-> pg.position, pointColor |-> pg.color]

\* StartOfUpdate with the running counter resumed where the previous update()
\* left it (the end of the point draw range) instead of starting at 0
StartOfUpdateResumesCounter(g, eg, pg) ==
  [i |-> IF pg.drawRange # <<>> THEN pg.drawRange[2] ELSE 0,
   indices |-> <<>>, edgeIndices |-> <<>>,
   position |-> g.position, color |-> g.color,
   edgePosition |-> eg.position, edgeColor |-> eg.color,
   pointPosition |-> pg.position, pointColor |-> pg.color]

\* let i = 0; const indices = []; const edgeIndices = []; the arrays are the
\* geometries' own
StartOfUpdate(g, eg, pg) ==
  [i |-> 0, indices |-> <<>>, edgeIndices |-> <<>>,
   position |-> g.position, color |-> g.color,
   edgePosition |-> eg.position, edgeColor |-> eg.color,
   pointPosition |-> pg.position, pointColor |-> pg.color]

\* HyperSliceGeometry.update(): the geometries after it, and its record
SliceUpdate(sh, opt, sl, g, eg, pg) ==
  LET start == StartOfUpdate(g, eg, pg)
      final == AfterCells(sh, opt, sl, start, Len(sh.cells))
  IN  [geometry |->
         IF opt.useFaces
         THEN [g EXCEPT !.position = final.position, !.color = final.color,
                        !.index = final.indices]
         ELSE g,
       edgeGeometry |->
         IF opt.useEdges
         THEN [eg EXCEPT !.position = final.edgePosition, !.color = final.edgeColor,
                         !.index = final.edgeIndices]
         ELSE eg,
       pointGeometry |->
         IF opt.usePoints
         THEN [pg EXCEPT !.position = final.pointPosition, !.color = final.pointColor,
                         !.drawRange = <<0, final.i>>]
         ELSE pg,
       trace |->
         [counter |-> final.i,
          cells |-> [c \in 1..Len(sh.cells) |->
                       LET before == AfterCells(sh, opt, sl, start, c - 1)
                           after == ProcessCell(sh, opt, sl, before, c)
                       IN  [i |-> before.i,
                            iAfter |-> after.i,
                            indices |-> SubSeq(after.indices, Len(before.indices) + 1,
                                               Len(after.indices)),
                            edgeIndices |-> SubSeq(after.edgeIndices,
                                                   Len(before.edgeIndices) + 1,
                                                   Len(after.edgeIndices)),
                            untouched |-> after = before,
                            result |-> CellOutcome(sh, sl, c)]],
          sliceCalls |-> [de \in DirEdges(sh) |-> SliceCallCount(sh, de)],
          projectCalls |-> <<>>]]

\* new HyperSliceGeometry(shape, hyperRenderer, options)
SliceConstructor(sh, opt, sl) ==
  LET maxPositions == MaxPositions(sh)
      g == IF opt.useFaces THEN InitGeometry(opt, maxPositions) ELSE NoGeometry
      eg == IF opt.useEdges THEN InitGeometry(opt, maxPositions) ELSE NoGeometry
      pg == IF opt.usePoints THEN InitGeometry(opt, maxPositions) ELSE NoGeometry
  IN  SliceUpdate(sh, opt, sl, g, eg, pg)

----------------------------------------------------------------------------
(* HyperGeometry *)

\* Dedup keeping the last occurrence of each entry instead of the first
RECURSIVE DedupKeepsLast(_)
DedupKeepsLast(seq) ==
  IF Len(seq) = 0 THEN <<>>
  ELSE LET rest == DedupKeepsLast(Tail(seq))
       IN  IF Head(seq) \in Range(rest) THEN rest ELSE <<Head(seq)>> \o rest

\* [...new Set(verticesIndices)]: the distinct entries, in first-occurrence order
RECURSIVE Dedup(_)
Dedup(seq) ==
  IF Len(seq) = 0 THEN <<>>
  ELSE LET front == Dedup(SubSeq(seq, 1, Len(seq) - 1))
           x == seq[Len(seq)]
       IN  IF x \in Range(front) THEN front ELSE Append(front, x)

\* verticesIndices.indexOf(x), 0-based, -1 when absent
IndexOf(seq, x) ==
  IF x \in Range(seq) THEN Min({k \in 1..Len(seq) : seq[k] = x}) - 1 ELSE 0 - 1

\* this.vertexGeometriesIndices[c]: faces.flat()
VertexGeometriesIndices(sh, c) == Flat(CellFaces(sh, sh.cells[c]))

\* this.dedupVertexGeometriesIndices[c]
DedupVertexGeometriesIndices(sh, c) == Dedup(VertexGeometriesIndices(sh, c))

\* new Array(face.length - 2) raises RangeError for a negative length
TessellateThrows(faces) == \E k \in 1..Len(faces) : Len(faces[k]) - 2 < 0

\* Tessellate without "faceShift += face.length": every face's fan starts at 0
TessellateNoShift(faces, faceShift) ==
  Flat([k \in 1..Len(faces) |-> FanIndices(0, Len(faces[k]))])

\* the triangle indices of a cell: per face, (faceShift, faceShift + i + 1,
\* faceShift + i + 2) for i = 0..face.length - 3, then faceShift += face.length
RECURSIVE Tessellate(_, _)
Tessellate(faces, faceShift) ==
  IF Len(faces) = 0 THEN <<>>
  ELSE LET face == Head(faces)
       IN  FanIndices(faceShift, Len(face)) \o Tessellate(Tail(faces), faceShift + Len(face))

\* the edge indices of one face: (indexOf(face[i]), indexOf(face[(i + 1) % length]))
FaceEdgeIndices(face, verticesIndices) ==
  [m \in 1..(2 * Len(face)) |->
     LET k == ((m - 1) \div 2) + 1
     IN  IF (m - 1) % 2 = 0 THEN IndexOf(verticesIndices, face[k])
         ELSE IndexOf(verticesIndices, NextInFace(face, k))]

\* the edge indices of a cell
CellEdgeIndices(faces, verticesIndices) ==
  Flat([k \in 1..Len(faces) |-> FaceEdgeIndices(faces[k], verticesIndices)])

\* the colours of a cell's face buffer: one per (face, vertex) occurrence
FaceColors(sh, c) ==
  LET faces == CellFaces(sh, sh.cells[c])
  IN  Flat([f \in 1..Len(faces) |->
              [k \in 1..Len(faces[f]) |-> CellColor("face", c, f, faces[f][k])]])

\* the colours of a cell's edge or point buffer: one per distinct vertex
VertexColors(type, sh, c) ==
  LET verticesIndex == DedupVertexGeometriesIndices(sh, c)
  IN  [k \in 1..Len(verticesIndex) |-> CellColor(type, c, 0, verticesIndex[k])]

\* the constructor raises (at the face tessellation, the only step that can)
ConstructorThrows(sh, opt) ==
  opt.useFaces /\ \E c \in 1..Len(sh.cells) : TessellateThrows(CellFaces(sh, sh.cells[c]))

\* the three lists of geometries as the constructor leaves them before update()
BuiltGeometries(sh, opt) ==
  [geometries |->
     IF opt.useFaces
     THEN [c \in 1..Len(sh.cells) |->
             LET g == InitGeometry(opt, Len(VertexGeometriesIndices(sh, c)))
             IN  [g EXCEPT !.index = Tessellate(CellFaces(sh, sh.cells[c]), 0),
                           !.color = IF opt.useColors
                                     THEN WriteSlots(g.color, 0, FaceColors(sh, c))
                                     ELSE g.color]]
     ELSE <<>>,
   edgesGeometries |->
     IF opt.useEdges
     THEN [c \in 1..Len(sh.cells) |->
             LET g == InitGeometry(opt, Len(DedupVertexGeometriesIndices(sh, c)))
             IN  [g EXCEPT !.index = CellEdgeIndices(CellFaces(sh, sh.cells[c]),
                                                     DedupVertexGeometriesIndices(sh, c)),
                           !.color = IF opt.useColors
                                     THEN WriteSlots(g.color, 0, VertexColors("edge", sh, c))
                                     ELSE g.color]]
     ELSE <<>>,
   pointsGeometries |->
     IF opt.usePoints
     THEN [c \in 1..Len(sh.cells) |->
             LET g == InitGeometry(opt, Len(DedupVertexGeometriesIndices(sh, c)))
             IN  [g EXCEPT !.color = IF opt.useColors
                                     THEN WriteSlots(g.color, 0, VertexColors("point", sh, c))
                                     ELSE g.color]]
     ELSE <<>>]

\* ProjectedPositions pushing the projected points onto the buffer instead of
\* writing them in place
ProjectedPositionsPushed(array, vertices, vertexIndices) ==
  array \o [k \in 1..Len(vertexIndices) |-> Store(vertices[vertexIndices[k]])]

\* the positions update() writes into one buffer: slot i gets vertices[vertexIndices[i]]
ProjectedPositions(array, vertices, vertexIndices) ==
  WriteSlots(array, 0, [k \in 1..Len(vertexIndices) |-> vertices[vertexIndices[k]]])

\* HyperGeometry.update(): the geometries after it, and its record
CellUpdate(sh, opt, pr, gs, egs, pgs) ==
  LET vertices == [v \in 1..NumVertices(sh) |-> pr[v]]
  IN  [geometries |->
         IF opt.useFaces
         THEN [c \in 1..Len(gs) |->
                 [gs[c] EXCEPT !.position =
                    ProjectedPositions(gs[c].position, vertices,
                                       VertexGeometriesIndices(sh, c))]]
         ELSE gs,
       edgesGeometries |->
         IF opt.useEdges
         THEN [c \in 1..Len(egs) |->
                 [egs[c] EXCEPT !.position =
                    ProjectedPositions(egs[c].position, vertices,
                                       DedupVertexGeometriesIndices(sh, c))]]
         ELSE egs,
       pointsGeometries |->
         IF opt.usePoints
         THEN [c \in 1..Len(pgs) |->
                 [pgs[c] EXCEPT !.position =
                    ProjectedPositions(pgs[c].position, vertices,
                                       DedupVertexGeometriesIndices(sh, c))]]
         ELSE pgs,
       trace |->
         [counter |-> 0, cells |-> <<>>, sliceCalls |-> <<>>,
          projectCalls |-> [v \in 1..NumVertices(sh) |-> 1]]]

\* new HyperGeometry(shape, hyperRenderer, options), when it does not raise
CellConstructor(sh, opt, pr) ==
  LET b == BuiltGeometries(sh, opt)
  IN  CellUpdate(sh, opt, pr, b.geometries, b.edgesGeometries, b.pointsGeometries)

----------------------------------------------------------------------------
(* Inputs *)

\* shapes that break the ShapeModel invariant "a face has at least 3 vertices"
Digon ==
  [vertices |-> <<1, 2, 3>>,
   faces    |-> << <<1, 2, 3>>, <<1, 2>> >>,
   cells    |-> << <<1, 2>> >>]

Monogon ==
  [vertices |-> <<1, 2, 3>>,
   faces    |-> << <<1, 2, 3>>, <<3>> >>,
   cells    |-> << <<1, 2>> >>]

Nullgon ==
  [vertices |-> <<1, 2, 3>>,
   faces    |-> << <<1, 2, 3>>, <<>> >>,
   cells    |-> << <<2, 1>> >>]

ValidShapes == {Tetra, TwoTetra, Lens}

InvalidShapes == {Digon, Monogon, Nullgon}

Options ==
  [useColors : BOOLEAN, useFaces : BOOLEAN, useEdges : BOOLEAN, usePoints : BOOLEAN]

\* a projector whose hyperplane misses the shape
NoSlice(sh) == [de \in DirEdges(sh) |-> None]

----------------------------------------------------------------------------
(* The state machine *)

InitCell ==
  \E sh \in ValidShapes \cup InvalidShapes, opt \in Options :
    \E pr \in ProjectionStates(sh) :
      /\ builder = "cell"
      /\ shape = sh
      /\ options = opt
      /\ projection = pr
      /\ sliceRes = NoSlice(sh)
      /\ geometry = NoGeometry
      /\ edgeGeometry = NoGeometry
      /\ pointGeometry = NoGeometry
      /\ lastOp = "construct"
      /\ IF ConstructorThrows(sh, opt)
         THEN /\ status = "threw"
              /\ geometries = <<>>
              /\ edgesGeometries = <<>>
              /\ pointsGeometries = <<>>
              /\ trace = [counter |-> 0, cells |-> <<>>, sliceCalls |-> <<>>,
                          projectCalls |-> <<>>]
         ELSE LET u == CellConstructor(sh, opt, pr)
              IN  /\ status = "built"
                  /\ geometries = u.geometries
                  /\ edgesGeometries = u.edgesGeometries
                  /\ pointsGeometries = u.pointsGeometries
                  /\ trace = u.trace

InitSlice ==
  \E sh \in ValidShapes, opt \in Options :
    \E sl \in SliceStates(sh) :
      LET u == SliceConstructor(sh, opt, sl)
      IN  /\ builder = "slice"
          /\ status = "built"
          /\ shape = sh
          /\ options = opt
          /\ projection = [v \in 1..NumVertices(sh) |-> ProjectAt(0, v)]
          /\ sliceRes = sl
          /\ geometries = <<>>
          /\ edgesGeometries = <<>>
          /\ pointsGeometries = <<>>
          /\ geometry = u.geometry
          /\ edgeGeometry = u.edgeGeometry
          /\ pointGeometry = u.pointGeometry
          /\ trace = u.trace
          /\ lastOp = "construct"

Init == InitCell \/ InitSlice

\* hyperRenderer.rotate, seen by a HyperGeometry: project returns new points.
\* The host changes the projector between two update() calls; several changes
\* in a row are one change to the builder, which reads the projector only in
\* update().
Rotate ==
  /\ builder = "cell"
  /\ status = "built"
  /\ lastOp # "rotate"
  /\ \E pr \in ProjectionStates(shape) \ {projection} : projection' = pr
  /\ lastOp' = "rotate"
  /\ UNCHANGED <<builder, status, shape, options, sliceRes, geometries,
                 edgesGeometries, pointsGeometries, geometry, edgeGeometry,
                 pointGeometry, trace>>

\* hyperRenderer.rotate / shiftSlice, seen by a HyperSliceGeometry: slice
\* returns new results
ShiftSlice ==
  /\ builder = "slice"
  /\ status = "built"
  /\ lastOp # "rotate"
  /\ \E sl \in SliceStates(shape) \ {sliceRes} : sliceRes' = sl
  /\ lastOp' = "rotate"
  /\ UNCHANGED <<builder, status, shape, options, projection, geometries,
                 edgesGeometries, pointsGeometries, geometry, edgeGeometry,
                 pointGeometry, trace>>

\* HyperGeometry.update()
UpdateCell ==
  /\ builder = "cell"
  /\ status = "built"
  /\ LET u == CellUpdate(shape, options, projection, geometries, edgesGeometries,
                         pointsGeometries)
     IN  /\ geometries' = u.geometries
         /\ edgesGeometries' = u.edgesGeometries
         /\ pointsGeometries' = u.pointsGeometries
         /\ trace' = u.trace
  /\ lastOp' = IF lastOp = "rotate" THEN "update" ELSE "repeat"
  /\ UNCHANGED <<builder, status, shape, options, projection, sliceRes, geometry,
                 edgeGeometry, pointGeometry>>

\* HyperSliceGeometry.update()
UpdateSlice ==
  /\ builder = "slice"
  /\ status = "built"
  /\ LET u == SliceUpdate(shape, options, sliceRes, geometry, edgeGeometry,
                          pointGeometry)
     IN  /\ geometry' = u.geometry
         /\ edgeGeometry' = u.edgeGeometry
         /\ pointGeometry' = u.pointGeometry
         /\ trace' = u.trace
  /\ lastOp' = IF lastOp = "rotate" THEN "update" ELSE "repeat"
  /\ UNCHANGED <<builder, status, shape, options, projection, sliceRes, geometries,
                 edgesGeometries, pointsGeometries>>

Next == Rotate \/ ShiftSlice \/ UpdateCell \/ UpdateSlice

Spec == Init /\ [][Next]_vars

----------------------------------------------------------------------------
(* Properties *)

\* the record update() kept of cell c of the cross-section
CellRecord(c) == trace.cells[c]

AllKinds == options.useFaces /\ options.useEdges /\ options.usePoints

\* the pairs are 2-point segments with distinct endpoints
TwoPointPairs(pairs) ==
  \A k \in 1..Len(pairs) : Len(pairs[k]) = 2 /\ ~Match(pairs[k][1], pairs[k][2])

PairEnds(pairs) == (1..Len(pairs)) \X {1, 2}

\* every endpoint is shared by exactly two pairs
EndsSharedByTwo(pairs) ==
  \A x \in PairEnds(pairs) :
    Cardinality({y \in PairEnds(pairs) :
                   Match(pairs[y[1]][y[2]], pairs[x[1]][x[2]])}) = 2

\* the pairs that share an endpoint with a pair of S, and S
Neighbours(pairs, S) ==
  S \cup {m \in 1..Len(pairs) :
            \E k \in S, e \in {1, 2}, f \in {1, 2} : Match(pairs[k][e], pairs[m][f])}

RECURSIVE Linked(_, _, _)
Linked(pairs, S, n) == IF n = 0 THEN S ELSE Linked(pairs, Neighbours(pairs, S), n - 1)

\* the pairs form a single consistent cycle of n >= 3 segments
SingleCycle(pairs) ==
  /\ Len(pairs) >= 3
  /\ TwoPointPairs(pairs)
  /\ EndsSharedByTwo(pairs)
  /\ Linked(pairs, {1}, Len(pairs)) = 1..Len(pairs)

\* C1 (as claimed): for a cell whose n >= 3 contributing faces yield 2-point
\* pairs forming a single cycle, loop reconstruction succeeds, consumes every
\* pair exactly once, and the chain has exactly n points.
LoopClosureChainLength ==
  \A c \in DOMAIN trace.cells :
    LET r == CellRecord(c).result
    IN  SingleCycle(r.pairs) =>
          /\ r.outcome = "closed"
          /\ Len(r.used) = Len(r.pairs)
          /\ Range(r.used) = 1..Len(r.pairs)
          /\ Len(r.linkedPairs) = Len(r.pairs)

\* the chain is a closed loop: its last point is back at its first point, or
\* the edge from its last to its first point is one of the cell's segments
ClosedLoop(r) ==
  LET first == r.linkedPairs[1]
      last == r.linkedPairs[Len(r.linkedPairs)]
  IN  \/ Match(last, first)
      \/ \E k \in 1..Len(r.pairs) :
           \/ Match(r.pairs[k][1], last) /\ Match(r.pairs[k][2], first)
           \/ Match(r.pairs[k][2], last) /\ Match(r.pairs[k][1], first)

\* C2 (as claimed): whenever reconstruction finishes without aborting and the
\* cell is emitted, the chain is a closed loop; an open chain is never emitted.
EmittedChainsAreClosed ==
  \A c \in DOMAIN trace.cells :
    LET r == CellRecord(c).result
    IN  r.outcome = "closed" => ClosedLoop(r)

\* reconstruction of the cell stopped at a full scan of the remaining pairs in
\* which no endpoint matches the dangling point
StuckAtDangle(r) ==
  /\ Len(r.pairs) > 2
  /\ LET rest == (1..Len(r.pairs)) \ Range(r.used)
         dangle == r.linkedPairs[Len(r.linkedPairs)]
     IN  /\ rest # {}
         /\ \A k \in rest : ~Match(r.pairs[k][1], dangle) /\ ~Match(r.pairs[k][2], dangle)

Degenerate(r) == Len(r.pairs) <= 2 \/ StuckAtDangle(r)

\* update() went on with the cells after c: each starts at the counter the
\* previous one left, and each one reconstructed advances the counter by its chain
LaterCellsProcessed(c) ==
  \A d \in DOMAIN trace.cells :
    d > c =>
      /\ CellRecord(d).i = CellRecord(d - 1).iAfter
      /\ CellRecord(d).result.outcome = "closed" =>
           CellRecord(d).iAfter = CellRecord(d).i + Len(CellRecord(d).result.linkedPairs)

\* C3: a cell with at most 2 contributing pairs, or whose reconstruction
\* reaches a full scan with no match for the dangling point, raises no error
\* and contributes no point, triangle or edge pair: the counter, the index
\* lists and the buffers are as before the cell, and later cells are processed.
DegenerateCellsSkipped ==
  \A c \in DOMAIN trace.cells :
    Degenerate(CellRecord(c).result) =>
      /\ status = "built"
      /\ CellRecord(c).iAfter = CellRecord(c).i
      /\ CellRecord(c).indices = <<>>
      /\ CellRecord(c).edgeIndices = <<>>
      /\ CellRecord(c).untouched
      /\ LaterCellsProcessed(c)
      /\ trace.counter = CellRecord(Len(trace.cells)).iAfter

\* C3 witness: a cell abandoned at an unmatched dangling point, followed by a
\* cell that is reconstructed and emitted into all three geometries
AbandonedThenEmitted ==
  /\ AllKinds
  /\ \E c \in DOMAIN trace.cells, d \in DOMAIN trace.cells :
       /\ c < d
       /\ StuckAtDangle(CellRecord(c).result)
       /\ CellRecord(d).result.outcome = "closed"
       /\ CellRecord(d).iAfter > CellRecord(d).i
       /\ CellRecord(d).indices # <<>>

\* C4 (as claimed): the number of points one update() writes, the final value
\* of the running counter, never exceeds the capacity allocated at construction.
CounterWithinCapacity ==
  builder = "slice" => trace.counter <= MaxPositions(shape)

\* calls of slice on the edge {a, b}, in either direction
CallsOnEdge(de) ==
  LET rev == <<de[2], de[1]>>
  IN  trace.sliceCalls[de]
        + (IF rev # de /\ rev \in DOMAIN trace.sliceCalls
           THEN trace.sliceCalls[rev] ELSE 0)

\* C5 (as claimed): one update() calls slice at most once per distinct edge.
SliceOncePerEdge ==
  \A de \in DOMAIN trace.sliceCalls : CallsOnEdge(de) <= 1

\* some cell references a face with fewer than 3 vertices
HasShortFace(sh) ==
  \E c \in 1..Len(sh.cells) :
    \E f \in 1..Len(sh.cells[c]) : Len(sh.faces[sh.cells[c][f]]) < 3

\* C6 (as claimed): constructing a HyperGeometry from a shape in which a cell
\* references a face with fewer than 3 vertices fails at construction,
\* whichever buffer kinds are enabled.
InvalidFaceFailsConstruction ==
  (builder = "cell" /\ HasShortFace(shape)) => status = "threw"

\* the position buffers of both builders
PositionBuffers ==
  <<[c \in DOMAIN geometries |-> geometries[c].position],
    [c \in DOMAIN edgesGeometries |-> edgesGeometries[c].position],
    [c \in DOMAIN pointsGeometries |-> pointsGeometries[c].position],
    geometry.position, edgeGeometry.position, pointGeometry.position>>

\* the cross-section's triangle index list, edge index list and draw range
SliceTopology == <<geometry.index, edgeGeometry.index, pointGeometry.drawRange>>

\* C7: an update() that follows the constructor's or another update() with no
\* projector change in between leaves every position buffer, and the
\* cross-section's index lists and draw range, as they were.
UpdateIdempotent ==
  [][lastOp' = "repeat" =>
       PositionBuffers' = PositionBuffers /\ SliceTopology' = SliceTopology]_vars

\* C7 witness: a repeated update() of a cross-section that emitted a loop into
\* all three geometries
RepeatedSliceUpdate ==
  /\ builder = "slice"
  /\ lastOp = "repeat"
  /\ AllKinds
  /\ trace.counter > 0
  /\ geometry.index # <<>>

\* index list, buffer lengths and colours of a list of per-cell geometries
TopologyOf(gs) ==
  [c \in DOMAIN gs |->
     [index |-> gs[c].index, positions |-> Len(gs[c].position),
      colors |-> Len(gs[c].color), color |-> gs[c].color]]

CellTopology ==
  <<TopologyOf(geometries), TopologyOf(edgesGeometries), TopologyOf(pointsGeometries)>>

\* C8: after construction of a HyperGeometry no step changes a cell's triangle
\* or edge index list, the length of a position or colour buffer, or the
\* colours; update() rewrites position values only.
CellTopologyFixed ==
  [][builder = "cell" => CellTopology' = CellTopology]_vars

\* C8 witness: a HyperGeometry with all buffer kinds and colours, updated after
\* a rotation, whose positions are no longer those of construction
CellUpdatedAfterRotate ==
  /\ builder = "cell"
  /\ lastOp = "update"
  /\ AllKinds /\ options.useColors
  /\ Len(shape.cells) = 2
  /\ geometries[1].position[1] # Store(ProjectAt(0, shape.faces[shape.cells[1][1]][1]))

\* list is the fan (i, i + j + 1, i + j + 2), j = 0..L - 3
IsFan(list, i, L) ==
  /\ Len(list) = 3 * (L - 2)
  /\ \A j \in 0..(L - 3) :
       /\ list[3 * j + 1] = i
       /\ list[3 * j + 2] = i + j + 1
       /\ list[3 * j + 3] = i + j + 2

\* list is the loop's edge pairs (i + j, i + ((j + 1) mod L)), j = 0..L - 1
IsLoopEdges(list, i, L) ==
  /\ Len(list) = 2 * L
  /\ \A j \in 0..(L - 1) :
       /\ list[2 * j + 1] = i + j
       /\ list[2 * j + 2] = i + ((j + 1) % L)

\* slots i..i + L - 1 of the array hold the chain points, in chain order (as
\* the single-precision values the array stores)
HoldsChain(array, i, chain) ==
  \A j \in 0..(Len(chain) - 1) :
    /\ i + j + 1 \in DOMAIN array
    /\ array[i + j + 1] = Store(chain[j + 1])

AllBelow(list, n) == \A k \in DOMAIN list : list[k] < n

\* C9 (as claimed): each reconstructed cell with chain length L, processed at
\* counter i, emits the L - 2 fan triangles and the L edge pairs offset by i,
\* writes its L chain points to slots i..i + L - 1 and advances the counter by
\* L; at the end every index is below the final counter and the point draw
\* range is [0, final counter).
EmissionPerCell ==
  builder = "slice" =>
    /\ \A c \in DOMAIN trace.cells :
         LET rec == CellRecord(c)
             chain == rec.result.linkedPairs
         IN  rec.result.outcome = "closed" =>
               /\ rec.iAfter = rec.i + Len(chain)
               /\ options.useFaces =>
                    /\ IsFan(rec.indices, rec.i, Len(chain))
                    /\ HoldsChain(geometry.position, rec.i, chain)
               /\ options.useEdges =>
                    /\ IsLoopEdges(rec.edgeIndices, rec.i, Len(chain))
                    /\ HoldsChain(edgeGeometry.position, rec.i, chain)
               /\ options.usePoints =>
                    HoldsChain(pointGeometry.position, rec.i, chain)
    /\ options.useFaces =>
         /\ geometry.index = Flat([c \in DOMAIN trace.cells |-> CellRecord(c).indices])
         /\ AllBelow(geometry.index, trace.counter)
    /\ options.useEdges =>
         /\ edgeGeometry.index =
              Flat([c \in DOMAIN trace.cells |-> CellRecord(c).edgeIndices])
         /\ AllBelow(edgeGeometry.index, trace.counter)
    /\ options.usePoints => pointGeometry.drawRange = <<0, trace.counter>>

\* the number of slots the faces before the f-th take in a cell's expanded stream
RECURSIVE FaceOffset(_, _, _)
FaceOffset(sh, c, f) ==
  IF f = 1 THEN 0
  ELSE FaceOffset(sh, c, f - 1) + Len(sh.faces[sh.cells[c][f - 1]])

\* the occurrences (face f of the cell, k-th vertex of the face) of a cell
Occurrences(sh, c) ==
  UNION {{<<f, k>> : k \in 1..Len(sh.faces[sh.cells[c][f]])} : f \in 1..Len(sh.cells[c])}

OccurrenceVertex(sh, c, o) == sh.faces[sh.cells[c][o[1]]][o[2]]

\* the 0-based slot of an occurrence in the expanded stream
OccurrenceSlot(sh, c, o) == FaceOffset(sh, c, o[1]) + o[2] - 1

CellVertices(sh, c) == {OccurrenceVertex(sh, c, o) : o \in Occurrences(sh, c)}

FirstSlot(sh, c, v) ==
  Min({OccurrenceSlot(sh, c, o) : o \in {x \in Occurrences(sh, c) : OccurrenceVertex(sh, c, x) = v}})

\* the 0-based place of v among the cell's distinct vertices, in first-occurrence order
DedupSlot(sh, c, v) ==
  Cardinality({w \in CellVertices(sh, c) : FirstSlot(sh, c, w) < FirstSlot(sh, c, v)})

\* the buffer has one slot per distinct vertex, holding its projection
HoldsDedupProjection(array, sh, c) ==
  /\ Len(array) = Cardinality(CellVertices(sh, c))
  /\ \A v \in CellVertices(sh, c) : array[DedupSlot(sh, c, v) + 1] = Store(projection[v])

\* C10: after update() of a HyperGeometry, project was called exactly once per
\* vertex; slot s of a cell's face position buffer holds the projection of the
\* vertex at position s of the cell's expanded face-vertex stream, and slot s
\* of its edge and point position buffers holds the projection of the s-th
\* distinct vertex of the cell in first-occurrence order (as the
\* single-precision values the buffers store).
CellPositionsRefreshed ==
  (builder = "cell" /\ status = "built" /\ lastOp # "rotate") =>
    /\ DOMAIN trace.projectCalls = 1..NumVertices(shape)
    /\ \A v \in 1..NumVertices(shape) : trace.projectCalls[v] = 1
    /\ \A c \in 1..Len(shape.cells) :
         /\ options.useFaces =>
              /\ Len(geometries[c].position) = Cardinality(Occurrences(shape, c))
              /\ \A o \in Occurrences(shape, c) :
                   geometries[c].position[OccurrenceSlot(shape, c, o) + 1] =
                     Store(projection[OccurrenceVertex(shape, c, o)])
         /\ options.useEdges => HoldsDedupProjection(edgesGeometries[c].position, shape, c)
         /\ options.usePoints => HoldsDedupProjection(pointsGeometries[c].position, shape, c)

\* C10 witness: a two-cell HyperGeometry with all buffer kinds, just updated
\* after a rotation
CellRefreshedAfterRotate ==
  /\ builder = "cell"
  /\ status = "built"
  /\ lastOp = "update"
  /\ AllKinds
  /\ Len(shape.cells) = 2
  /\ projection # [v \in 1..NumVertices(shape) |-> ProjectAt(0, v)]

\* the vertex at 0-based place a among the cell's distinct vertices
DedupAt(sh, c, a) == CHOOSE v \in CellVertices(sh, c) : DedupSlot(sh, c, v) = a

\* the part of a cell's triangle index list that belongs to its f-th face: the
\* faces before it, of lengths summing to FaceOffset, gave FaceOffset - 2(f - 1)
\* triangles
FaceTriangles(sh, c, f, index) ==
  LET before == 3 * (FaceOffset(sh, c, f) - 2 * (f - 1))
  IN  SubSeq(index, before + 1, before + 3 * (Len(sh.faces[sh.cells[c][f]]) - 2))

\* C11: at construction of a HyperGeometry for a valid shape, for every cell
\* (a) the triangle index list is, face by face, the fan (f, f + j + 1,
\* f + j + 2), j = 0..k - 3, of the face's expanded slots f..f + k - 1, so every
\* triangle index lies in its face's own slot range and below the cell's
\* expanded length, and (b) the edge index list has exactly one pair per cyclic
\* consecutive vertex pair of each face, the pair (a, b) naming the distinct
\* vertices dedup[a] = face[i] and dedup[b] = face[(i + 1) mod k], with every
\* edge index in [0, number of distinct vertices of the cell).
TopologyDecodesBack ==
  (builder = "cell" /\ status = "built" /\ ~HasShortFace(shape)) =>
    \A c \in 1..Len(shape.cells) :
      LET expanded == Cardinality(Occurrences(shape, c))
          distinct == Cardinality(CellVertices(shape, c))
      IN  /\ options.useFaces =>
               LET index == geometries[c].index
               IN  /\ Len(index) = 3 * (expanded - 2 * Len(shape.cells[c]))
                   /\ \A f \in 1..Len(shape.cells[c]) :
                        LET k == Len(shape.faces[shape.cells[c][f]])
                            off == FaceOffset(shape, c, f)
                            tri == FaceTriangles(shape, c, f, index)
                        IN  /\ IsFan(tri, off, k)
                            /\ \A m \in DOMAIN tri :
                                 tri[m] >= off /\ tri[m] < off + k /\ tri[m] < expanded
          /\ options.useEdges =>
               LET index == edgesGeometries[c].index
               IN  /\ Len(index) = 2 * expanded
                   /\ \A o \in Occurrences(shape, c) :
                        LET face == shape.faces[shape.cells[c][o[1]]]
                            s == OccurrenceSlot(shape, c, o)
                            a == index[2 * s + 1]
                            b == index[2 * s + 2]
                        IN  /\ a \in 0..(distinct - 1)
                            /\ b \in 0..(distinct - 1)
                            /\ DedupAt(shape, c, a) = face[o[2]]
                            /\ DedupAt(shape, c, b) = NextInFace(face, o[2])

\* C11 witness: a built HyperGeometry with face and edge geometries for a cell
\* that has a pentagon, a triangle and a quadrilateral sharing their vertices
BuiltCellWithPentagon ==
  /\ builder = "cell"
  /\ status = "built"
  /\ lastOp = "construct"
  /\ options.useFaces /\ options.useEdges
  /\ shape = Lens
  /\ Len(geometries[1].index) = 18
  /\ Len(edgesGeometries[1].index) = 24

\* the position arrays of the cross-section's three geometries
SlicePositions == <<geometry.position, edgeGeometry.position, pointGeometry.position>>

\* the two arrays agree on their slots below the counter n
SameBelow(array, other, n) ==
  \A s \in DOMAIN array : s <= n => (s \in DOMAIN other /\ array[s] = other[s])

\* the output of the latest update() is the output of an update() on a builder
\* constructed anew for the same shape and slice results, and references no
\* slot at or above the final counter
FrameOutputFresh ==
  (builder = "slice" /\ lastOp # "rotate") =>
    LET fresh == SliceConstructor(shape, options, sliceRes)
    IN  /\ trace.counter = fresh.trace.counter
        /\ geometry.index = fresh.geometry.index
        /\ edgeGeometry.index = fresh.edgeGeometry.index
        /\ pointGeometry.drawRange = fresh.pointGeometry.drawRange
        /\ SameBelow(geometry.position, fresh.geometry.position, trace.counter)
        /\ SameBelow(edgeGeometry.position, fresh.edgeGeometry.position, trace.counter)
        /\ SameBelow(pointGeometry.position, fresh.pointGeometry.position, trace.counter)
        /\ AllBelow(geometry.index, trace.counter)
        /\ AllBelow(edgeGeometry.index, trace.counter)
        /\ options.usePoints => pointGeometry.drawRange = <<0, trace.counter>>

\* a step leaves the position slots at or above the new final counter as they were
StaleSlotsKept ==
  builder = "slice" =>
    \A a \in 1..3 :
      /\ Len(SlicePositions'[a]) = Len(SlicePositions[a])
      /\ \A s \in DOMAIN SlicePositions[a] :
           s > trace'.counter => SlicePositions'[a][s] = SlicePositions[a][s]

\* a cell abandoned by the previous update() whose pairs now form a single
\* cycle is reconstructed and emitted
AbandonedReconstructedLater ==
  \A c \in DOMAIN trace.cells :
    (trace.cells[c].result.outcome = "abandoned"
       /\ SingleCycle(trace'.cells[c].result.pairs)) =>
      LET rec == trace'.cells[c]
      IN  /\ rec.result.outcome = "closed"
          /\ Range(rec.result.used) = 1..Len(rec.result.pairs)
          /\ rec.iAfter = rec.i + Len(rec.result.linkedPairs)
          /\ options.useFaces => rec.indices # <<>>
          /\ options.useEdges => rec.edgeIndices # <<>>

\* C12: after any sequence of projector changes and update() calls on a
\* HyperSliceGeometry, the output of the latest update() (triangle index list,
\* edge index list, point draw range, positions in the slots below the final
\* counter) is what the shape and the slice results of that call give on a new
\* builder; the slots at or above the final counter keep what earlier frames
\* wrote and are referenced by no index and not by the draw range; and a cell
\* abandoned in one frame is reconstructed in a later frame whose slice results
\* form a cycle.
NoCrossFrameState ==
  /\ []FrameOutputFresh
  /\ [][StaleSlotsKept /\ AbandonedReconstructedLater]_vars

\* C12 witness: an update() after a change of the slice results that emitted a
\* loop from a cycle of pairs into all three geometries and ended at a counter
\* below the one of an earlier frame, whose points are still in the slots above
UpdatedOverEarlierFrame ==
  /\ builder = "slice"
  /\ lastOp = "update"
  /\ AllKinds
  /\ trace.counter > 0
  /\ \E c \in DOMAIN trace.cells :
       /\ SingleCycle(CellRecord(c).result.pairs)
       /\ CellRecord(c).result.outcome = "closed"
  /\ \E s \in DOMAIN geometry.position :
       s > trace.counter /\ geometry.position[s] # Zero3

\* C13: for any pairs slice returns, the reconstruction loop of a cell
\* terminates: every iteration of the while loop either removes exactly one
\* pair from the remaining ones and appends exactly one point to the chain, or
\* ends the cell (and is then the last), so a cell with n pairs finishes after
\* at most n - 1 iterations, closed exactly when every pair was consumed, and
\* update() completes with every cell handled.
ReconstructionTerminates ==
  builder = "slice" =>
    /\ status = "built"
    /\ Len(trace.cells) = Len(shape.cells)
    /\ \A c \in DOMAIN trace.cells :
         LET r == CellRecord(c).result
             n == Len(r.pairs)
         IN  n > 2 =>
               /\ r.outcome \in {"closed", "abandoned"}
               /\ r.iters = Len(r.steps)
               /\ r.iters <= n - 1
               /\ \A k \in DOMAIN r.steps :
                    \/ /\ ~r.steps[k].aborted
                       /\ r.steps[k].removed = 1
                       /\ r.steps[k].appended = 1
                    \/ /\ r.steps[k].aborted
                       /\ r.steps[k].removed = 0
                       /\ r.steps[k].appended = 0
                       /\ k = Len(r.steps)
               /\ Len(r.used) = 1 + Cardinality({k \in DOMAIN r.steps : ~r.steps[k].aborted})
               /\ Cardinality(Range(r.used)) = Len(r.used)
               /\ (r.outcome = "closed") = (Len(r.used) = n)

\* C13 witness: an update() in which one cell's loop linked a pair and then
\* ended the cell at an unmatched dangling point, and another cell's loop
\* consumed all its n pairs in n - 1 iterations
LoopsAbortedAndCompleted ==
  /\ builder = "slice"
  /\ \E c \in DOMAIN trace.cells :
       /\ CellRecord(c).result.outcome = "abandoned"
       /\ CellRecord(c).result.iters >= 2
  /\ \E d \in DOMAIN trace.cells :
       /\ CellRecord(d).result.outcome = "closed"
       /\ Len(CellRecord(d).result.pairs) >= 3
       /\ CellRecord(d).result.iters = Len(CellRecord(d).result.pairs) - 1

====
